---- MODULE Spec2Model ----
(***************************************************************************)
(* Model of the tile cache of src/src/tilecache.js: the CacheRecord class  *)
(* (lines 58-397) and the TileCache class (lines 408-667).                 *)
(*                                                                         *)
(* Tiles, tiled images and the conversion registry are collaborators of    *)
(* the cache.  A tile's immutable attributes (cacheKey, level, tiledImage) *)
(* are fixed functions; the attributes its owner mutates between calls     *)
(* (lastTouchTime, beingDrawn, loaded) are read by the cache at call time  *)
(* and are inputs of the action that reads them.                           *)
(***************************************************************************)
EXTENDS Integers, Sequences, FiniteSets, TLC

VARIABLES
    cachesLoaded,        \* TileCache._cachesLoaded: cache key -> CacheRecord
    zombiesLoaded,       \* TileCache._zombiesLoaded: cache key -> CacheRecord
    zombieOrder,         \* property order of _zombiesLoaded (what for-in walks)
    cachesLoadedCount,   \* TileCache._cachesLoadedCount
    zombiesLoadedCount,  \* TileCache._zombiesLoadedCount
    tilesLoaded,         \* TileCache._tilesLoaded
    caches,              \* Tile._caches of every tile: its keys, in binding order
    needsDraw,           \* TiledImage._needsDraw of every tiled image
    last,                \* the last call: its arguments, what it returned and emitted
    record,              \* one CacheRecord followed through its asynchronous life
    conversionJobQueue,  \* its _conversionJobQueue
    conversions,         \* the conversions _convert started on it, in order
    timers,              \* the setTimeout callbacks of _checkAwaitsConvert not yet run
    history              \* what has been observed of the record: requests, releases

cacheVars == <<cachesLoaded, zombiesLoaded, zombieOrder, cachesLoadedCount,
               zombiesLoadedCount, tilesLoaded, caches, needsDraw, last>>

recordVars == <<record, conversionJobQueue, conversions, timers, history>>

\* what no method of CacheRecord touches
mapVars == <<cachesLoaded, zombiesLoaded, zombieOrder, cachesLoadedCount,
             zombiesLoadedCount, tilesLoaded, caches, last>>

vars == <<cachesLoaded, zombiesLoaded, zombieOrder, cachesLoadedCount,
          zombiesLoadedCount, tilesLoaded, caches, needsDraw, last,
          record, conversionJobQueue, conversions, timers, history>>

----------------------------------------------------------------------------
(* The universe of the model.                                              *)

Tiles == {"t1", "t2", "t3"}
\* the tiles the calls of Spec are made with
TwoTiles == {"t1", "t2"}
Keys == {"A", "B", "C"}
TiledImages == {"I1", "I2"}
\* (data, dataType) pairs a caller passes to cacheTile
Payloads == {<<"D1", "raw">>, <<"D2", "img">>}
TouchTimes == {10, 20}
Cutoffs == {0, 2}

Null == "null"
NoKey == "nokey"
NoTile == "notile"
NullTiles == <<Null>>

\* options.maxImageCacheCount given to the constructor
maxCacheItemCount == 1
\* the longest _tilesLoaded the model lets grow
MaxTilesLoaded == 2

\* Tile.cacheKey: the tile's primary key (t1 and t3 share their source)
cacheKey(t) == CASE t = "t1" -> "A" [] t = "t2" -> "B" [] OTHER -> "A"
\* the options.cacheKey a tile is cached with: none (its own cacheKey), for
\* t2 also the key A, for t3 also the key C
CacheKeys(t) == CASE t = "t2" -> {NoKey, "A"} [] t = "t3" -> {NoKey, "C"}
                  [] OTHER -> {NoKey}
\* Tile.level
level(t) == CASE t = "t1" -> 2 [] t = "t2" -> 5 [] OTHER -> 2
\* Tile.tiledImage
tiledImage(t) == CASE t = "t1" -> "I1" [] t = "t2" -> "I2" [] OTHER -> "I1"
\* TiledImage._zombieCache
zombieCache(ti) == ti = "I1"

----------------------------------------------------------------------------
(* Array and map helpers (JavaScript arrays are 0-based, these 1-based).   *)

includes(seq, x) == \E i \in 1..Len(seq) : seq[i] = x

\* Array.prototype.splice(i, 1)
splice(seq, i) ==
    IF i < 1 \/ i > Len(seq) THEN seq
    ELSE [j \in 1..(Len(seq) - 1) |-> IF j < i THEN seq[j] ELSE seq[j + 1]]

\* array[i] = x for i <= length + 1
setAt(seq, i, x) ==
    IF i = Len(seq) + 1 THEN Append(seq, x) ELSE [seq EXCEPT ![i] = x]

indexOf(seq, x) ==
    IF includes(seq, x) THEN CHOOSE i \in 1..Len(seq) :
        seq[i] = x /\ \A j \in 1..(i - 1) : seq[j] # x
    ELSE 0

without(seq, x) == splice(seq, indexOf(seq, x))

\* map[k] = v
Put(map, k, v) == [x \in DOMAIN map \cup {k} |-> IF x = k THEN v ELSE map[x]]
\* delete map[k]
Del(map, k) == [x \in DOMAIN map \ {k} |-> map[x]]
\* a property keeps its place in the order when it is assigned again
PutOrder(order, k) == IF includes(order, k) THEN order ELSE Append(order, k)

EmptyMap == [x \in {} |-> Null]

----------------------------------------------------------------------------
(* CacheRecord.                                                            *)

NullPromise == <<>>
\* $.Promise.resolve(data)
Resolved(data) == <<"resolved", data>>

\* CacheRecord.revive
revive(rec) ==
    [tiles |-> <<>>, data |-> Null, type |-> Null, loaded |-> FALSE,
     promise |-> NullPromise, destroyed |-> FALSE]

\* new $.CacheRecord()
NewCacheRecord == revive([tiles |-> NullTiles])

\* CacheRecord.removeTile: the record after the call and the value returned
removeTile(rec, tile) ==
    IF rec.destroyed THEN [rec |-> rec, removed |-> FALSE]
    ELSE IF includes(rec.tiles, tile)
         THEN [rec |-> [rec EXCEPT !.tiles = splice(@, indexOf(@, tile))],
               removed |-> TRUE]
         ELSE [rec |-> rec, removed |-> FALSE]

\* addTile taking the data and type of every call
addTile_AdoptsData(rec, tile, data, type) ==
    IF rec.destroyed THEN rec
    ELSE LET r1 == IF includes(rec.tiles, tile) THEN removeTile(rec, tile).rec
                   ELSE [rec EXCEPT !.type = type,
                                    !.promise = Resolved(data),
                                    !.data = data,
                                    !.loaded = TRUE]
         IN [r1 EXCEPT !.tiles = Append(@, tile)]

\* CacheRecord.addTile
addTile(rec, tile, data, type) ==
    IF rec.destroyed THEN rec
    ELSE LET r1 == IF includes(rec.tiles, tile) THEN removeTile(rec, tile).rec
                   ELSE IF ~rec.loaded
                        THEN [rec EXCEPT !.type = type,
                                         !.promise = Resolved(data),
                                         !.data = data,
                                         !.loaded = TRUE]
                        ELSE rec
         IN [r1 EXCEPT !.tiles = Append(@, tile)]

\* CacheRecord.getTileCount
getTileCount(rec) == IF rec.tiles = NullTiles THEN 0 ELSE Len(rec.tiles)

\* CacheRecord.destroy of a loaded record: the record after the call and the
\* (data, type) pairs handed to $.convertor.destroy
destroy(rec) ==
    IF rec.loaded
    THEN [rec |-> [tiles |-> NullTiles, data |-> Null, type |-> Null,
                   loaded |-> FALSE, promise |-> NullPromise, destroyed |-> TRUE],
          released |-> << <<rec.data, rec.type>> >>]
    ELSE [rec |-> [rec EXCEPT !.destroyed = TRUE, !.loaded = FALSE],
          released |-> <<>>]

\* a promise callback or a queued job: its kind, the request it serves (0 for
\* none) and the data and type it carries
Callback(kind, req, data, type) ==
    [kind |-> kind, req |-> req, data |-> data, type |-> type]

\* _conversionJobQueue when the property is absent (never set, or deleted)
NoQueue == <<Callback("noqueue", 0, Null, Null)>>

\* this._data = undefined (_convert, line 393)
Undefined == "undefined"

\* nothing observed yet of the record followed: the requests made of it
\* (transformTo and setDataAs calls), the requests in the order they took
\* effect and in the order their eventual resolved with the values they
\* resolved to, the (data, type) pairs
\* handed to $.convertor.destroy, the number of edge.transform calls, the
\* number of $.convertor.convert and $.convertor.copy calls and the payload
\* and format tag passed in each (with whether the payload had been handed to
\* $.convertor.destroy before), whether an edge.transform has resolved to a
\* falsy value, and whether a call threw
NoHistory ==
    [requests |-> <<>>, applied |-> <<>>, resolved |-> <<>>, values |-> <<>>,
     released |-> <<>>, transforms |-> 0, calls |-> 0, passed |-> <<>>,
     failed |-> FALSE, threw |-> FALSE]

----------------------------------------------------------------------------
(* TileCache.  Its methods are operators on the bundle S of the cache's    *)
(* fields, the tiles' bindings, and what the call has emitted so far:      *)
(* events (tile-unloaded events raised on the viewer), released (payloads  *)
(* handed to $.convertor.destroy), ret (the value the last callee          *)
(* returned), loaded (the tiles whose loaded attribute is true),           *)
(* worstTileIndex (cacheTile's local, 0 for -1) and zombieDestroyed (the   *)
(* key of the zombie cacheTile destroyed, NoKey if none).                  *)

State(loadedTiles) ==
    [cachesLoaded |-> cachesLoaded, zombiesLoaded |-> zombiesLoaded,
     zombieOrder |-> zombieOrder, cachesLoadedCount |-> cachesLoadedCount,
     zombiesLoadedCount |-> zombiesLoadedCount, tilesLoaded |-> tilesLoaded,
     caches |-> caches, needsDraw |-> needsDraw,
     events |-> <<>>, released |-> <<>>, ret |-> FALSE, loaded |-> loadedTiles,
     worstTileIndex |-> 0, zombieDestroyed |-> NoKey]

\* Tile.getCacheSize (collaborator): the number of cache rows the tile holds
getCacheSize(S, tile) == Len(S.caches[tile])

\* Tile.unload (collaborator): the tile drops its bindings and is not loaded
unload(S, tile) ==
    [S EXCEPT !.caches[tile] = <<>>, !.loaded = @ \ {tile}]

\* TileCache.numCachesLoaded
numCachesLoaded(S) == S.zombiesLoadedCount + S.cachesLoadedCount

\* TileCache.getCacheRecord: the map that answers for the key, "none" if neither
getCacheRecord(S, key) ==
    IF key \in DOMAIN S.cachesLoaded THEN "live"
    ELSE IF key \in DOMAIN S.zombiesLoaded THEN "zombie" ELSE "none"

\* unloadCacheForTile leaving the record it makes a zombie in the live map
unloadCacheForTile_KeepsLive(S, tile, key, destroyIt) ==
    IF key \in DOMAIN S.cachesLoaded
    THEN LET r == removeTile(S.cachesLoaded[key], tile) IN
         IF r.removed
         THEN IF getTileCount(r.rec) = 0
              THEN IF destroyIt
                   THEN [S EXCEPT !.released = @ \o destroy(r.rec).released,
                                  !.cachesLoaded = Del(@, key),
                                  !.cachesLoadedCount = @ - 1,
                                  !.ret = TRUE]
                   ELSE [S EXCEPT !.zombiesLoaded = Put(@, key, r.rec),
                                  !.zombieOrder = PutOrder(@, key),
                                  !.zombiesLoadedCount = @ + 1,
                                  !.ret = TRUE]
              ELSE [S EXCEPT !.cachesLoaded[key] = r.rec, !.ret = TRUE]
         ELSE [S EXCEPT !.ret = FALSE]
    ELSE [S EXCEPT !.ret = FALSE]

\* unloadCacheForTile taking destroy for its opposite
unloadCacheForTile_Swapped(S, tile, key, destroyIt) ==
    IF key \in DOMAIN S.cachesLoaded
    THEN LET r == removeTile(S.cachesLoaded[key], tile) IN
         IF r.removed
         THEN IF getTileCount(r.rec) = 0
              THEN IF ~destroyIt
                   THEN [S EXCEPT !.released = @ \o destroy(r.rec).released,
                                  !.cachesLoaded = Del(@, key),
                                  !.cachesLoadedCount = @ - 1,
                                  !.ret = TRUE]
                   ELSE [S EXCEPT !.zombiesLoaded = Put(@, key, r.rec),
                                  !.zombieOrder = PutOrder(@, key),
                                  !.zombiesLoadedCount = @ + 1,
                                  !.cachesLoaded = Del(@, key),
                                  !.cachesLoadedCount = @ - 1,
                                  !.ret = TRUE]
              ELSE [S EXCEPT !.cachesLoaded[key] = r.rec, !.ret = TRUE]
         ELSE [S EXCEPT !.ret = FALSE]
    ELSE [S EXCEPT !.ret = FALSE]

\* unloadCacheForTile not looking at what removeTile returned
unloadCacheForTile_Unchecked(S, tile, key, destroyIt) ==
    IF key \in DOMAIN S.cachesLoaded
    THEN LET r == removeTile(S.cachesLoaded[key], tile) IN
         IF getTileCount(r.rec) = 0
         THEN IF destroyIt
              THEN [S EXCEPT !.released = @ \o destroy(r.rec).released,
                             !.cachesLoaded = Del(@, key),
                             !.cachesLoadedCount = @ - 1,
                             !.ret = TRUE]
              ELSE [S EXCEPT !.zombiesLoaded = Put(@, key, r.rec),
                             !.zombieOrder = PutOrder(@, key),
                             !.zombiesLoadedCount = @ + 1,
                             !.cachesLoaded = Del(@, key),
                             !.cachesLoadedCount = @ - 1,
                             !.ret = TRUE]
         ELSE [S EXCEPT !.cachesLoaded[key] = r.rec, !.ret = TRUE]
    ELSE [S EXCEPT !.ret = FALSE]

\* TileCache.unloadCacheForTile
unloadCacheForTile(S, tile, key, destroyIt) ==
    IF key \in DOMAIN S.cachesLoaded
    THEN LET r == removeTile(S.cachesLoaded[key], tile) IN
         IF r.removed
         THEN IF getTileCount(r.rec) = 0
              THEN IF destroyIt
                   THEN [S EXCEPT !.released = @ \o destroy(r.rec).released,
                                  !.cachesLoaded = Del(@, key),
                                  !.cachesLoadedCount = @ - 1,
                                  !.ret = TRUE]
                   ELSE [S EXCEPT !.zombiesLoaded = Put(@, key, r.rec),
                                  !.zombieOrder = PutOrder(@, key),
                                  !.zombiesLoadedCount = @ + 1,
                                  !.cachesLoaded = Del(@, key),
                                  !.cachesLoadedCount = @ - 1,
                                  !.ret = TRUE]
              ELSE [S EXCEPT !.cachesLoaded[key] = r.rec, !.ret = TRUE]
         ELSE [S EXCEPT !.ret = FALSE]
    ELSE [S EXCEPT !.ret = FALSE]

\* the loop of unloadTile over the keys of tile._caches
RECURSIVE unloadCaches(_, _, _, _)
unloadCaches(S, tile, keys, destroyIt) ==
    IF keys = <<>> THEN S
    ELSE unloadCaches(unloadCacheForTile(S, tile, Head(keys), destroyIt),
                      tile, Tail(keys), destroyIt)

\* TileCache.unloadTile; deleteAtIndex = 0 stands for undefined
unloadTile(S, tile, destroyIt, deleteAtIndex) ==
    LET S1 == unloadCaches(S, tile, S.caches[tile], destroyIt)
        S2 == IF deleteAtIndex # 0
              THEN [S1 EXCEPT !.tilesLoaded = splice(@, deleteAtIndex)]
              ELSE S1
        S3 == unload(S2, tile)
    IN [S3 EXCEPT !.events = Append(@, [tile |-> tile,
                                        tiledImage |-> tiledImage(tile),
                                        destroyed |-> destroyIt])]

\* cacheTile, lines 462-494: find or create the record and attach the tile.
\* S.ret is the record the call will return.
cacheTileAttach(S, theTile, key, data, dataType) ==
    LET where == getCacheRecord(S, key)
        found == IF where = "live" THEN S.cachesLoaded[key]
                 ELSE IF where = "zombie" THEN S.zombiesLoaded[key]
                 ELSE NewCacheRecord
        wasDestroyed == where # "none" /\ found.destroyed
        S1 == IF where = "none"
              THEN [S EXCEPT !.cachesLoaded = Put(@, key, NewCacheRecord),
                             !.cachesLoadedCount = @ + 1]
              ELSE IF wasDestroyed
              THEN [S EXCEPT !.zombiesLoaded = Del(@, key),
                             !.zombieOrder = without(@, key),
                             !.zombiesLoadedCount = @ - 1]
              ELSE S
        cacheRecord == addTile(IF wasDestroyed THEN revive(found) ELSE found,
                               theTile, data, dataType)
        holder == getCacheRecord(S1, key)
        S2 == IF holder = "live"
              THEN [S1 EXCEPT !.cachesLoaded[key] = cacheRecord]
              ELSE IF holder = "zombie"
              THEN [S1 EXCEPT !.zombiesLoaded[key] = cacheRecord]
              ELSE S1
        S3 == IF key = cacheKey(theTile)
              THEN [S2 EXCEPT !.needsDraw[tiledImage(theTile)] = TRUE]
              ELSE S2
    IN [S3 EXCEPT !.ret = cacheRecord]

\* cacheTile, line 499
overflows(S) == S.cachesLoadedCount + S.zombiesLoadedCount > maxCacheItemCount

\* the destruction of a zombie that leaves _zombiesLoadedCount as it was
destroyOneZombie_NoCount(S) ==
    IF S.zombieOrder = <<>> THEN S
    ELSE LET zombie == Head(S.zombieOrder) IN
         [S EXCEPT !.released = @ \o destroy(S.zombiesLoaded[zombie]).released,
                   !.zombiesLoaded = Del(@, zombie),
                   !.zombieOrder = Tail(@),
                   !.zombieDestroyed = zombie]

\* cacheTile, lines 501-507: destroy the first zombie the for-in loop meets
destroyOneZombie(S) ==
    IF S.zombieOrder = <<>> THEN S
    ELSE LET zombie == Head(S.zombieOrder) IN
         [S EXCEPT !.released = @ \o destroy(S.zombiesLoaded[zombie]).released,
                   !.zombiesLoaded = Del(@, zombie),
                   !.zombieOrder = Tail(@),
                   !.zombiesLoadedCount = @ - 1,
                   !.zombieDestroyed = zombie]

\* the scan preferring the lower level among tiles of one lastTouchTime
RECURSIVE worstTileScan_Shallowest(_, _, _, _, _, _)
worstTileScan_Shallowest(tl, i, worst, cutoff, lastTouchTime, beingDrawn) ==
    IF i < 1 THEN worst
    ELSE LET prevTile == tl[i] IN
         IF level(prevTile) <= cutoff \/ beingDrawn[prevTile]
         THEN worstTileScan_Shallowest(tl, i - 1, worst, cutoff, lastTouchTime, beingDrawn)
         ELSE IF worst = 0
         THEN worstTileScan_Shallowest(tl, i - 1, i, cutoff, lastTouchTime, beingDrawn)
         ELSE IF lastTouchTime[prevTile] < lastTouchTime[tl[worst]]
                 \/ (lastTouchTime[prevTile] = lastTouchTime[tl[worst]]
                     /\ level(prevTile) < level(tl[worst]))
              THEN worstTileScan_Shallowest(tl, i - 1, i, cutoff, lastTouchTime, beingDrawn)
              ELSE worstTileScan_Shallowest(tl, i - 1, worst, cutoff, lastTouchTime, beingDrawn)

\* the scan not skipping the tiles being drawn
RECURSIVE worstTileScan_Drawn(_, _, _, _, _, _)
worstTileScan_Drawn(tl, i, worst, cutoff, lastTouchTime, beingDrawn) ==
    IF i < 1 THEN worst
    ELSE LET prevTile == tl[i] IN
         IF level(prevTile) <= cutoff
         THEN worstTileScan_Drawn(tl, i - 1, worst, cutoff, lastTouchTime, beingDrawn)
         ELSE IF worst = 0
         THEN worstTileScan_Drawn(tl, i - 1, i, cutoff, lastTouchTime, beingDrawn)
         ELSE IF lastTouchTime[prevTile] < lastTouchTime[tl[worst]]
                 \/ (lastTouchTime[prevTile] = lastTouchTime[tl[worst]]
                     /\ level(prevTile) > level(tl[worst]))
              THEN worstTileScan_Drawn(tl, i - 1, i, cutoff, lastTouchTime, beingDrawn)
              ELSE worstTileScan_Drawn(tl, i - 1, worst, cutoff, lastTouchTime, beingDrawn)

\* cacheTile, lines 512-533: the scan for the worst tile, from index i down;
\* worst is the index of the worst tile so far, 0 when there is none
RECURSIVE worstTileScan(_, _, _, _, _, _)
worstTileScan(tl, i, worst, cutoff, lastTouchTime, beingDrawn) ==
    IF i < 1 THEN worst
    ELSE LET prevTile == tl[i] IN
         IF level(prevTile) <= cutoff \/ beingDrawn[prevTile]
         THEN worstTileScan(tl, i - 1, worst, cutoff, lastTouchTime, beingDrawn)
         ELSE IF worst = 0
         THEN worstTileScan(tl, i - 1, i, cutoff, lastTouchTime, beingDrawn)
         ELSE LET prevTime == lastTouchTime[prevTile]
                  worstTime == lastTouchTime[tl[worst]]
                  prevLevel == level(prevTile)
                  worstLevel == level(tl[worst])
              IN IF prevTime < worstTime
                    \/ (prevTime = worstTime /\ prevLevel > worstLevel)
                 THEN worstTileScan(tl, i - 1, i, cutoff, lastTouchTime, beingDrawn)
                 ELSE worstTileScan(tl, i - 1, worst, cutoff, lastTouchTime, beingDrawn)

\* the eviction pass looking for a tile to unload before any zombie
cacheTileEvict_TilesFirst(S, cutoff, lastTouchTime, beingDrawn) ==
    IF overflows(S)
    THEN LET w == worstTileScan(S.tilesLoaded, Len(S.tilesLoaded), 0,
                                cutoff, lastTouchTime, beingDrawn)
         IN IF w > 0
            THEN [unloadTile(S, S.tilesLoaded[w], TRUE, 0)
                     EXCEPT !.worstTileIndex = w]
            ELSE IF S.zombiesLoadedCount > 0 THEN destroyOneZombie(S) ELSE S
    ELSE S

\* cacheTile, lines 498-540: the eviction pass
cacheTileEvict(S, cutoff, lastTouchTime, beingDrawn) ==
    IF overflows(S)
    THEN IF S.zombiesLoadedCount > 0
         THEN destroyOneZombie(S)
         ELSE LET w == worstTileScan(S.tilesLoaded, Len(S.tilesLoaded), 0,
                                     cutoff, lastTouchTime, beingDrawn)
              IN IF w > 0
                 THEN [unloadTile(S, S.tilesLoaded[w], TRUE, 0)
                          EXCEPT !.worstTileIndex = w]
                 ELSE S
    ELSE S

\* cacheTile, lines 542-547: the bookkeeping of _tilesLoaded
cacheTileInsert(S, theTile, length) ==
    LET insertionIndex == IF S.worstTileIndex > 0 THEN S.worstTileIndex
                          ELSE length + 1
    IN IF getCacheSize(S, theTile) = 0
       THEN [S EXCEPT !.tilesLoaded = setAt(@, insertionIndex, theTile)]
       ELSE IF S.worstTileIndex > 0
       THEN [S EXCEPT !.tilesLoaded = splice(@, insertionIndex)]
       ELSE S

\* the record cacheTile returns, as it is when the call returns: the eviction
\* pass may have changed or destroyed the object attached to
returnedRecord(S, key, attached, holder) ==
    IF holder = "live"
    THEN IF key \in DOMAIN S.cachesLoaded THEN S.cachesLoaded[key]
         ELSE destroy(attached).rec
    ELSE IF holder = "zombie"
    THEN IF key \in DOMAIN S.zombiesLoaded THEN S.zombiesLoaded[key]
         ELSE destroy(attached).rec
    ELSE attached

\* TileCache.cacheTile from the attached state on
cacheTileFinish(S, theTile, key, cutoff, lastTouchTime, beingDrawn, length) ==
    LET S4 == cacheTileEvict(S, cutoff, lastTouchTime, beingDrawn)
        S5 == cacheTileInsert(S4, theTile, length)
    IN [S5 EXCEPT !.ret = returnedRecord(S5, key, S.ret, getCacheRecord(S, key))]

\* Tile.setCache (collaborator): the tile binds the key to the record returned
setCache(S, tile, key) ==
    [S EXCEPT !.caches[tile] = PutOrder(@, key)]

\* TileCache.clearTilesFor, lines 563-567: destroy every zombie
RECURSIVE destroyZombies(_, _)
destroyZombies(S, order) ==
    IF order = <<>> THEN [S EXCEPT !.zombiesLoadedCount = 0]
    ELSE destroyZombies(
             [S EXCEPT !.released = @ \o destroy(S.zombiesLoaded[Head(order)]).released,
                       !.zombiesLoaded = Del(@, Head(order)),
                       !.zombieOrder = without(@, Head(order))],
             Tail(order))

\* the walk leaving in _tilesLoaded the tiles that are not loaded
RECURSIVE clearLoop_KeepsUnloaded(_, _, _, _)
clearLoop_KeepsUnloaded(S, image, i, destroyIt) ==
    IF i < 1 THEN S
    ELSE LET tile == S.tilesLoaded[i] IN
         IF tiledImage(tile) = image /\ tile \in S.loaded
         THEN clearLoop_KeepsUnloaded(unloadTile(S, tile, destroyIt, i),
                                      image, i - 1, destroyIt)
         ELSE clearLoop_KeepsUnloaded(S, image, i - 1, destroyIt)

\* TileCache.clearTilesFor, lines 570-581: the walk of _tilesLoaded from its end
RECURSIVE clearLoop(_, _, _, _)
clearLoop(S, image, i, destroyIt) ==
    IF i < 1 THEN S
    ELSE LET tile == S.tilesLoaded[i] IN
         IF tiledImage(tile) = image
         THEN IF tile \notin S.loaded
              THEN clearLoop([S EXCEPT !.tilesLoaded = splice(@, i)],
                             image, i - 1, destroyIt)
              ELSE clearLoop(unloadTile(S, tile, destroyIt, i),
                             image, i - 1, destroyIt)
         ELSE clearLoop(S, image, i - 1, destroyIt)

\* clearTilesFor not counting the caches anew after the purge of zombies
clearTilesFor_StaleOverflow(S, image) ==
    LET purge == zombieCache(image) /\ overflows(S) /\ S.zombiesLoadedCount > 0
        S1 == IF purge THEN destroyZombies(S, S.zombieOrder) ELSE S
    IN clearLoop(S1, image, Len(S1.tilesLoaded),
                 ~zombieCache(image) \/ overflows(S))

\* TileCache.clearTilesFor
clearTilesFor(S, image) ==
    LET purge == zombieCache(image) /\ overflows(S) /\ S.zombiesLoadedCount > 0
        S1 == IF purge THEN destroyZombies(S, S.zombieOrder) ELSE S
        cacheOverflows == IF purge
                          THEN S1.cachesLoadedCount > maxCacheItemCount
                          ELSE overflows(S)
    IN clearLoop(S1, image, Len(S1.tilesLoaded),
                 ~zombieCache(image) \/ cacheOverflows)

----------------------------------------------------------------------------
(* The calls.                                                              *)

NoTouch == [t \in Tiles |-> 10]
NoDrawn == [t \in Tiles |-> FALSE]

\* what `last` holds of a call: op, its arguments (tile, key, payload, cutoff,
\* destroyIt, index, image, and lastTouchTime and beingDrawn when the call
\* read them: scanned), where the key's record was found before the call, the
\* record or boolean returned, the events raised, the payloads released, the
\* tile evicted and the zombie destroyed
NoCall ==
    [op |-> "none", tile |-> NoTile, key |-> NoKey, cutoff |-> 0,
     destroyIt |-> FALSE, index |-> 0, image |-> "none", scanned |-> FALSE,
     lastTouchTime |-> NoTouch, beingDrawn |-> NoDrawn,
     payload |-> <<Null, Null>>,
     where |-> "none", record |-> NewCacheRecord, ret |-> FALSE,
     events |-> <<>>, released |-> <<>>, victim |-> NoTile,
     zombieDestroyed |-> NoKey]

Install(S) ==
    /\ cachesLoaded' = S.cachesLoaded
    /\ zombiesLoaded' = S.zombiesLoaded
    /\ zombieOrder' = S.zombieOrder
    /\ cachesLoadedCount' = S.cachesLoadedCount
    /\ zombiesLoadedCount' = S.zombiesLoadedCount
    /\ tilesLoaded' = S.tilesLoaded
    /\ caches' = S.caches
    /\ needsDraw' = S.needsDraw
    /\ UNCHANGED recordVars

\* the values an attribute may have on the tiles of _tilesLoaded when the
\* scan reads it (it reads no other tile's)
Attributes(values, default) ==
    {f \in [Tiles -> values] :
        \A t \in Tiles : ~includes(tilesLoaded, t) => f[t] = default[t]}

Init ==
    /\ cachesLoaded = EmptyMap
    /\ zombiesLoaded = EmptyMap
    /\ zombieOrder = <<>>
    /\ cachesLoadedCount = 0
    /\ zombiesLoadedCount = 0
    /\ tilesLoaded = <<>>
    /\ caches = [t \in Tiles |-> <<>>]
    /\ needsDraw = [i \in TiledImages |-> FALSE]
    /\ last = NoCall
    /\ record = NewCacheRecord
    /\ conversionJobQueue = NoQueue
    /\ conversions = <<>>
    /\ timers = 0
    /\ history = NoHistory

\* the arguments of a cacheTile call: the tile, options.cacheKey (NoKey when
\* not given) and (data, dataType)
CacheTileArgs(tiles) ==
    {a \in [tile : tiles, cacheKey : Keys \cup {NoKey}, payload : Payloads] :
        a.cacheKey \in CacheKeys(a.tile)}

\* the attributes of the call that the scan for the worst tile reads
ScanArgs ==
    [cutoff : Cutoffs,
     lastTouchTime : Attributes(TouchTimes, NoTouch),
     beingDrawn : Attributes(BOOLEAN, NoDrawn)]

NoScan == [cutoff |-> 0, lastTouchTime |-> NoTouch, beingDrawn |-> NoDrawn]

\* TileCache.cacheTile({tile, cacheKey, data, dataType, cutoff}) from tile.setCache,
\* which then binds the key; S3 is the state with the tile attached
cacheTile(S3, a, scan, length) ==
    LET key == IF a.cacheKey = NoKey THEN cacheKey(a.tile) ELSE a.cacheKey
        S5 == cacheTileFinish(S3, a.tile, key, scan.cutoff, scan.lastTouchTime,
                              scan.beingDrawn, length)
    IN setCache(S5, a.tile, key)

Attach(a) ==
    cacheTileAttach(State({}), a.tile,
                    IF a.cacheKey = NoKey THEN cacheKey(a.tile) ELSE a.cacheKey,
                    a.payload[1], a.payload[2])

Scans(S3) == overflows(S3) /\ ~(S3.zombiesLoadedCount > 0)

CallOfCacheTile(a, S3, S6) ==
    [NoCall EXCEPT
        !.op = "cacheTile", !.tile = a.tile,
        !.key = IF a.cacheKey = NoKey THEN cacheKey(a.tile) ELSE a.cacheKey,
        !.payload = a.payload,
        !.where = getCacheRecord(State({}),
                      IF a.cacheKey = NoKey THEN cacheKey(a.tile) ELSE a.cacheKey),
        !.record = S6.ret,
        !.events = S6.events, !.released = S6.released,
        !.victim = IF S6.worstTileIndex > 0 THEN tilesLoaded[S6.worstTileIndex]
                   ELSE NoTile,
        !.zombieDestroyed = S6.zombieDestroyed]

\* what the scan for the worst tile finds in _tilesLoaded with the attributes scan
ScanResult(scan) ==
    worstTileScan(tilesLoaded, Len(tilesLoaded), 0, scan.cutoff,
                  scan.lastTouchTime, scan.beingDrawn)

\* one of ScanArgs for every tile the scan can find (and for finding none):
\* cacheTile uses nothing of the attributes but the scan's result
ScanCases ==
    {CHOOSE scan \in ScanArgs : ScanResult(scan) = w :
        w \in {ScanResult(scan) : scan \in ScanArgs}}

\* a cacheTile call; the attributes the scan read are not kept in `last`
CacheTile ==
    LET cases == ScanCases IN
    \E a \in CacheTileArgs(TwoTiles) :
        LET S3 == Attach(a) IN
        \E scan \in IF Scans(S3) THEN cases ELSE {NoScan} :
            LET S6 == cacheTile(S3, a, scan, Len(tilesLoaded))
            IN /\ Len(S6.tilesLoaded) <= MaxTilesLoaded
               /\ Install(S6)
               /\ last' = CallOfCacheTile(a, S3, S6)

\* a cacheTile call of a tile under its own cacheKey, or of t3 under the key
\* C; `last` keeps the attributes the scan read (with no other call made,
\* _tilesLoaded holds a tile at most once)
CacheTileObserved ==
    \E a \in {x \in CacheTileArgs(Tiles) :
                 x.cacheKey \in {NoKey, "C"} /\ x.payload = <<"D1", "raw">>} :
        /\ ~last.scanned
        /\ LET S3 == Attach(a) IN
           \E scan \in IF Scans(S3) THEN ScanArgs ELSE {NoScan} :
               LET S6 == cacheTile(S3, a, scan, Len(tilesLoaded))
               IN /\ Install(S6)
                  /\ last' = [CallOfCacheTile(a, S3, S6) EXCEPT
                                 !.scanned = Scans(S3),
                                 !.cutoff = scan.cutoff,
                                 !.lastTouchTime = scan.lastTouchTime,
                                 !.beingDrawn = scan.beingDrawn]

\* the observation of a scan ends: the call's record is dropped
Observed ==
    /\ last.scanned
    /\ last' = NoCall
    /\ UNCHANGED <<cachesLoaded, zombiesLoaded, zombieOrder, cachesLoadedCount,
                   zombiesLoadedCount, tilesLoaded, caches, needsDraw>>
    /\ UNCHANGED recordVars

\* TileCache.unloadTile(tile, destroy, deleteAtIndex) on a tile the cache knows,
\* with no index or with the index the tile is recorded at
UnloadTile ==
    \E tile \in TwoTiles, destroyIt \in BOOLEAN, deleteAtIndex \in 0..Len(tilesLoaded) :
        /\ caches[tile] # <<>> \/ includes(tilesLoaded, tile)
        /\ deleteAtIndex # 0 => tilesLoaded[deleteAtIndex] = tile
        /\ LET S == unloadTile(State({}), tile, destroyIt, deleteAtIndex)
           IN /\ Install(S)
              /\ last' = [NoCall EXCEPT
                     !.op = "unloadTile", !.tile = tile, !.destroyIt = destroyIt,
                     !.index = deleteAtIndex,
                     !.events = S.events, !.released = S.released]

\* tile.removeCache(key) on a key the tile holds:
\* TileCache.unloadCacheForTile(tile, key, destroy), then the tile drops the
\* binding if the call returned true
UnloadCacheForTile ==
    \E tile \in TwoTiles, key \in Keys, destroyIt \in BOOLEAN :
        /\ includes(caches[tile], key)
        /\ LET S == unloadCacheForTile(State({}), tile, key, destroyIt)
               S1 == IF S.ret THEN [S EXCEPT !.caches[tile] = without(@, key)] ELSE S
           IN /\ Install(S1)
              /\ last' = [NoCall EXCEPT
                     !.op = "unloadCacheForTile", !.tile = tile, !.key = key,
                     !.destroyIt = destroyIt,
                     !.where = getCacheRecord(State({}), key),
                     !.ret = S.ret, !.released = S.released]

\* TileCache.clearTilesFor(tiledImage); loadedTiles are the tiles of the image
\* whose loaded attribute is true at the call (only a tile that holds a cache
\* is loaded)
ClearTilesFor ==
    \E image \in TiledImages :
        \E loadedTiles \in SUBSET {t \in Tiles : tiledImage(t) = image /\ caches[t] # <<>>} :
            LET S == clearTilesFor(State(loadedTiles), image)
            IN /\ Install(S)
               /\ last' = [NoCall EXCEPT
                      !.op = "clearTilesFor", !.image = image,
                      !.events = S.events, !.released = S.released]

Next ==
    \/ CacheTile
    \/ UnloadTile
    \/ UnloadCacheForTile
    \/ ClearTilesFor

Spec == Init /\ [][Next]_vars

\* cacheTile calls alone, with three tiles and the scan's inputs observed
NextLRU == CacheTileObserved \/ Observed

SpecLRU == Init /\ [][NextLRU]_vars

\* the runs of SpecLRU in which what a call has shown is taken note of
SpecLRUFair == SpecLRU /\ WF_vars(Observed)

----------------------------------------------------------------------------
(* One CacheRecord and its asynchronous operations.  The conversion        *)
(* registry ($.convertor) is a collaborator: formats A, B, C with the      *)
(* edges A -> B, B -> C, C -> A, and a format U no path leads to.  A       *)
(* payload is written content@format, its format being the one it is      *)
(* really in, whatever tag the record carries.                             *)

Formats == {"A", "B", "C"}
Unreachable == "U"
Contents == {"D1", "D2", "G"}
\* what an edge.transform may resolve to instead of a payload
Falsy == "falsy"

Datum(c, f) ==
    CASE c = "D1" /\ f = "A" -> "D1@A" [] c = "D1" /\ f = "B" -> "D1@B"
      [] c = "D1" /\ f = "C" -> "D1@C" [] c = "D2" /\ f = "A" -> "D2@A"
      [] c = "D2" /\ f = "B" -> "D2@B" [] c = "D2" /\ f = "C" -> "D2@C"
      [] c = "G" /\ f = "A" -> "G@A" [] c = "G" /\ f = "B" -> "G@B"
      [] OTHER -> "G@C"

IsDatum(x) == \E c \in Contents, f \in Formats : Datum(c, f) = x

\* the content of a payload; G (garbage) for what is no payload
ContentOf(x) ==
    IF IsDatum(x)
    THEN CHOOSE c \in Contents : \E f \in Formats : Datum(c, f) = x
    ELSE "G"

\* the format a value is really in; "none" for what is no payload
FormatOf(x) ==
    IF IsDatum(x)
    THEN CHOOSE f \in Formats : \E c \in Contents : Datum(c, f) = x
    ELSE "none"

\* the target of the only edge that leaves a format
NextFormat(f) == CASE f = "A" -> "B" [] f = "B" -> "C" [] OTHER -> "A"

Edge(origin, target) == [origin |-> origin, target |-> target]

\* $.convertor.getConversionPath(from, to); <<>> when there is none
getConversionPath(from, to) ==
    IF from \notin Formats \/ to \notin Formats \/ from = to THEN <<>>
    ELSE IF NextFormat(from) = to THEN <<Edge(from, to)>>
    ELSE <<Edge(from, NextFormat(from)), Edge(NextFormat(from), to)>>

\* what edge.transform(x) resolves to when it succeeds
transform(edge, x) == Datum(ContentOf(x), edge.target)

\* what $.convertor.copy(x, type) resolves to: another value than x
convertorCopy(x) ==
    CASE x = "D1@A" -> "copy of D1@A" [] x = "D1@B" -> "copy of D1@B"
      [] x = "D1@C" -> "copy of D1@C" [] x = "D2@A" -> "copy of D2@A"
      [] x = "D2@B" -> "copy of D2@B" [] x = "D2@C" -> "copy of D2@C"
      [] OTHER -> "copy"

\* what $.convertor.convert(x, from, to) resolves to
convertorConvert(x, from, to) ==
    IF from = to THEN x
    ELSE IF getConversionPath(from, to) = <<>> THEN Undefined
    ELSE Datum(ContentOf(x), to)

\* the names of the conversions, in the order they start
ConversionIds == <<"k1", "k2", "k3", "k4", "k5", "k6">>

\* the promise convert() returns for the conversion named id
ConversionPromise(id) == <<"conversion", id>>

ConversionOf(promise) == CHOOSE k \in 1..Len(ConversionIds) : ConversionIds[k] = promise[2]

\* The record's methods are operators on the bundle M of the record, its
\* queue, the conversions, the timers, the history and micro, the promise
\* callbacks ready to run (each with the value its promise resolved to).
Machine ==
    [rec |-> record, queue |-> conversionJobQueue, convs |-> conversions,
     timers |-> timers, hist |-> [history EXCEPT !.threw = FALSE],
     needsDraw |-> needsDraw, micro |-> <<>>]

\* $.convertor.destroy(data, type)
Release(M, data, type) ==
    [M EXCEPT !.hist.released = Append(@, <<data, type>>)]

\* a request's effect takes place / its eventual resolves
Applied(M, req) == [M EXCEPT !.hist.applied = Append(@, req)]
ResolvedReq(M, req, value) ==
    [M EXCEPT !.hist.resolved = Append(@, req), !.hist.values = Append(@, value)]

\* $.convertor.convert(data, type, ...) or $.convertor.copy(data, type) is
\* called
Passed(M, data, type) ==
    [M EXCEPT !.hist.calls = @ + 1,
              !.hist.passed = Append(@,
                  [data |-> data, type |-> type,
                   released |-> \E i \in 1..Len(M.hist.released) :
                                   M.hist.released[i][1] = data])]

\* promise.then(callback); a TypeError when the promise is null
Then(M, promise, callback) ==
    IF promise = NullPromise THEN [M EXCEPT !.hist.threw = TRUE]
    ELSE IF promise[1] = "resolved"
    THEN [M EXCEPT !.micro = Append(@, [cb |-> callback, value |-> promise[2]])]
    ELSE LET k == ConversionOf(promise) IN
         IF M.convs[k].settled
         THEN [M EXCEPT !.micro = Append(@, [cb |-> callback,
                                             value |-> M.convs[k].value])]
         ELSE [M EXCEPT !.convs[k].callbacks = Append(@, callback)]


\* CacheRecord._checkAwaitsConvert up to its setTimeout
checkAwaitsConvert(M) ==
    IF M.queue = NoQueue \/ M.rec.destroyed THEN M
    ELSE [M EXCEPT !.timers = @ + 1]

\* _triggerNeedsDraw that stops after the first tile
triggerNeedsDraw_FirstTile(M) ==
    IF M.rec.tiles = NullTiles THEN [M EXCEPT !.hist.threw = TRUE]
    ELSE [M EXCEPT !.needsDraw =
             [i \in TiledImages |->
                 @[i] \/ (M.rec.tiles # <<>> /\ tiledImage(M.rec.tiles[1]) = i)]]

\* CacheRecord._triggerNeedsDraw: for-of over _tiles, a TypeError when null
triggerNeedsDraw(M) ==
    IF M.rec.tiles = NullTiles THEN [M EXCEPT !.hist.threw = TRUE]
    ELSE [M EXCEPT !.needsDraw =
             [i \in TiledImages |->
                 @[i] \/ \E j \in 1..Len(M.rec.tiles) : tiledImage(M.rec.tiles[j]) = i]]

\* _convert leaving the record's tag as it is
convert_KeepsType(M, from, to) ==
    LET conversionPath == getConversionPath(from, to)
        k == Len(M.convs) + 1
    IN IF conversionPath = <<>> THEN M
       ELSE [M EXCEPT
                !.convs = Append(@, [from |-> from, to |-> to,
                                     path |-> conversionPath, i |-> 1,
                                     x |-> M.rec.data,
                                     originalData |-> M.rec.data,
                                     settled |-> FALSE, value |-> Null,
                                     callbacks |-> <<>>]),
                !.hist.transforms = @ + 1,
                !.rec.loaded = FALSE,
                !.rec.data = Undefined,
                !.rec.promise = ConversionPromise(ConversionIds[k])]

\* _convert without its test of the path: with no edge to go through it
\* completes at once, the payload kept and the record tagged to
convert_Untested(M, from, to) ==
    LET conversionPath == getConversionPath(from, to)
        k == Len(M.convs) + 1
    IN IF conversionPath = <<>>
       THEN checkAwaitsConvert([M EXCEPT !.rec.type = to,
                                         !.rec.loaded = TRUE,
                                         !.rec.promise = Resolved(M.rec.data)])
       ELSE [M EXCEPT
                !.convs = Append(@, [from |-> from, to |-> to,
                                     path |-> conversionPath, i |-> 1,
                                     x |-> M.rec.data,
                                     originalData |-> M.rec.data,
                                     settled |-> FALSE, value |-> Null,
                                     callbacks |-> <<>>]),
                !.hist.transforms = @ + 1,
                !.rec.loaded = FALSE,
                !.rec.data = Undefined,
                !.rec.type = to,
                !.rec.promise = ConversionPromise(ConversionIds[k])]

\* CacheRecord._convert up to the first edge.transform call
convert(M, from, to) ==
    LET conversionPath == getConversionPath(from, to)
        k == Len(M.convs) + 1
    IN IF conversionPath = <<>> THEN M
       ELSE [M EXCEPT
                !.convs = Append(@, [from |-> from, to |-> to,
                                     path |-> conversionPath, i |-> 1,
                                     x |-> M.rec.data,
                                     originalData |-> M.rec.data,
                                     settled |-> FALSE, value |-> Null,
                                     callbacks |-> <<>>]),
                !.hist.transforms = @ + 1,
                !.rec.loaded = FALSE,
                !.rec.data = Undefined,
                !.rec.type = to,
                !.rec.promise = ConversionPromise(ConversionIds[k])]

\* a conversion that is over: nothing is kept of it but the value its promise
\* resolved to
Settled ==
    [from |-> Null, to |-> Null, path |-> <<>>, i |-> 0, x |-> Null,
     originalData |-> Null, settled |-> TRUE, value |-> Null, callbacks |-> <<>>]

\* the promise of conversion k resolves to value: its callbacks are ready
settle(M, k, value) ==
    [M EXCEPT !.convs[k] = [Settled EXCEPT !.value = value],
              !.micro = @ \o [j \in 1..Len(M.convs[k].callbacks) |->
                                 [cb |-> M.convs[k].callbacks[j], value |-> value]]]

\* _convert, lines 367-389: the transform of the current edge of conversion
\* k has resolved to y
edgeDone(M, k, y) ==
    LET c == M.convs[k]
        edge == c.path[c.i]
    IN IF y = Falsy
       THEN settle([M EXCEPT !.rec.data = c.from,
                             !.rec.type = c.from,
                             !.rec.loaded = TRUE,
                             !.hist.failed = TRUE],
                   k, c.originalData)
       ELSE LET M1 == Release(M, c.x, edge.origin) IN
            IF c.i + 1 > Len(c.path)
            THEN settle(checkAwaitsConvert([M1 EXCEPT !.rec.data = y,
                                                      !.rec.loaded = TRUE]),
                        k, y)
            ELSE [M1 EXCEPT !.convs[k].i = @ + 1,
                            !.convs[k].x = y,
                            !.hist.transforms = @ + 1]

\* a promise callback runs with the value x its promise resolved to
runCallback(M, cb, x) ==
    CASE cb.kind = "destroyed" ->
            \* destroy, lines 225-236
            LET M1 == Release(M, x, cb.type) IN
            IF ~M1.rec.destroyed THEN M1
            ELSE [M1 EXCEPT !.rec.tiles = NullTiles, !.rec.data = Null,
                            !.rec.type = Null, !.rec.promise = NullPromise]
      [] cb.kind = "overwrite" ->
            \* _overwriteData, lines 342-349
            LET M1 == Release(M, x, M.rec.type)
                M2 == [M1 EXCEPT !.rec.type = cb.type, !.rec.data = cb.data,
                                 !.rec.promise = Resolved(cb.data)]
                M3 == triggerNeedsDraw(M2)
            IN IF M2.rec.tiles = NullTiles THEN Applied(M3, cb.req)
               ELSE ResolvedReq(Applied(M3, cb.req), cb.req, x)
      [] cb.kind = "read" ->
            \* getDataAs, lines 143-155; cb.data tells whether to copy
            IF M.rec.destroyed THEN ResolvedReq(M, cb.req, Undefined)
            ELSE IF cb.type # M.rec.type
            THEN ResolvedReq(Passed(M, x, M.rec.type), cb.req,
                             convertorConvert(x, M.rec.type, cb.type))
            ELSE IF cb.data = "copy"
            THEN ResolvedReq(Passed(M, x, cb.type), cb.req,
                             convertorCopy(x))
            ELSE ResolvedReq(M, cb.req, x)
      [] cb.kind = "resolveAndCheck" ->
            \* transformTo, lines 182-185
            ResolvedReq(checkAwaitsConvert(M), cb.req, x)
      [] OTHER ->
            \* transformTo, line 179, and the caller's own continuation
            ResolvedReq(M, cb.req, x)

\* the ready callbacks run, in order, until none is left
RECURSIVE runMicrotasks(_)
runMicrotasks(M) ==
    IF M.micro = <<>> THEN M
    ELSE runMicrotasks(runCallback([M EXCEPT !.micro = Tail(@)],
                                   Head(M.micro).cb, Head(M.micro).value))

\* the caller is handed promise as the eventual of request req
Returned(M, promise, req) ==
    IF promise = NullPromise THEN ResolvedReq(M, req, Null)
    ELSE Then(M, promise, Callback("resolve", req, Null, Null))

\* _overwriteData that does not wait for the conversion under way
overwriteData_NoWait(M, data, type, req) ==
    IF M.rec.destroyed
    THEN ResolvedReq(Applied(Release(M, data, type), req), req, Undefined)
    ELSE LET M1 == Release(M, M.rec.data, M.rec.type)
             M2 == [M1 EXCEPT !.rec.type = type, !.rec.data = data,
                              !.rec.promise = Resolved(data)]
             M3 == triggerNeedsDraw(M2)
         IN IF M2.rec.tiles = NullTiles THEN Applied(M3, req)
            ELSE ResolvedReq(Applied(M3, req), req, data)

\* CacheRecord._overwriteData
overwriteData(M, data, type, req) ==
    IF M.rec.destroyed
    THEN ResolvedReq(Applied(Release(M, data, type), req), req, Undefined)
    ELSE IF M.rec.loaded
    THEN LET M1 == Release(M, M.rec.data, M.rec.type)
             M2 == [M1 EXCEPT !.rec.type = type, !.rec.data = data,
                              !.rec.promise = Resolved(data)]
             M3 == triggerNeedsDraw(M2)
         IN IF M2.rec.tiles = NullTiles THEN Applied(M3, req)
            ELSE ResolvedReq(Applied(M3, req), req, data)
    ELSE Then(M, M.rec.promise, Callback("overwrite", req, data, type))

\* CacheRecord.setDataAs
setDataAs(M, data, type, req) ==
    IF M.queue # NoQueue
    THEN [M EXCEPT !.queue = Append(@, Callback("overwrite", req, data, type))]
    ELSE overwriteData(M, data, type, req)

\* CacheRecord.transformTo
transformTo(M, type, req) ==
    IF ~M.rec.loaded \/ type # M.rec.type
    THEN IF ~M.rec.loaded
         THEN [M EXCEPT !.queue = Append(IF @ = NoQueue THEN <<>> ELSE @,
                                         Callback("transform", req, Null, type))]
         ELSE LET M1 == Applied(convert(M, M.rec.type, type), req)
              IN Returned(M1, M1.rec.promise, req)
    ELSE Returned(Applied(M, req), M.rec.promise, req)

\* CacheRecord.getDataAs; type Undefined stands for the default, this._type,
\* and copy is "copy" or "nocopy"; the eventuals of $.convertor.copy and
\* $.convertor.convert resolve at once
getDataAs(M, type, copy, req) ==
    LET t == IF type = Undefined THEN M.rec.type ELSE type IN
    IF M.rec.loaded /\ t = M.rec.type
    THEN IF copy = "copy"
         THEN ResolvedReq(Passed(M, M.rec.data, t), req,
                          convertorCopy(M.rec.data))
         ELSE Returned(M, M.rec.promise, req)
    ELSE Then(M, M.rec.promise, Callback("read", req, copy, t))

\* a job of the queue runs: transformTo, lines 172-187, or setDataAs, line 123
runJob(M, job) ==
    IF job.kind = "transform"
    THEN IF M.rec.destroyed THEN M
         ELSE IF job.type # M.rec.type
         THEN LET M1 == Applied(convert(M, M.rec.type, job.type), job.req)
              IN Then(M1, M1.rec.promise, Callback("resolve", job.req, Null, Null))
         ELSE Then(Applied(M, job.req), M.rec.promise,
                   Callback("resolveAndCheck", job.req, Null, Null))
    ELSE overwriteData(M, job.data, job.type, job.req)

\* the setTimeout callback taking the head job without checking again
timerFired_NoRecheck(M) ==
    LET M1 == [M EXCEPT !.timers = @ - 1] IN
    IF M1.queue = NoQueue THEN [M1 EXCEPT !.hist.threw = TRUE]
    ELSE runJob([M1 EXCEPT !.queue = IF Tail(@) = <<>> THEN NoQueue ELSE Tail(@)],
                Head(M1.queue))

\* _checkAwaitsConvert, lines 304-315: the setTimeout callback
timerFired(M) ==
    LET M1 == [M EXCEPT !.timers = @ - 1] IN
    IF M1.queue = NoQueue \/ M1.rec.destroyed THEN M1
    ELSE runJob([M1 EXCEPT !.queue = IF Tail(@) = <<>> THEN NoQueue ELSE Tail(@)],
                Head(M1.queue))

\* CacheRecord.destroy, with the continuation it chains when not loaded
destroyAsync(M) ==
    LET M1 == [M EXCEPT !.queue = NoQueue, !.rec.destroyed = TRUE]
    IN IF M1.rec.loaded
       THEN [M1 EXCEPT !.rec = destroy(M.rec).rec,
                       !.hist.released = @ \o destroy(M.rec).released]
       ELSE LET M2 == Then(M1, M1.rec.promise,
                           Callback("destroyed", 0, Null, M1.rec.type))
            IN IF M2.hist.threw THEN M2 ELSE [M2 EXCEPT !.rec.loaded = FALSE]


\* the most transformTo and setDataAs calls made of the record
MaxRequests == 3

\* the targets of the transformTo calls
TransformTargets == {"B", "C", Unreachable}
\* the (data, type) pairs of the setDataAs calls
SetDataArgs == {<<"D2@C", "C">>}
\* the (data, type) pair the tiles are added with
TileData == <<"D1@A", "A">>

\* a conversion whose current edge.transform has not resolved yet
Running(k) == k \in 1..Len(conversions) /\ ~conversions[k].settled

\* the conversions in flight
InFlight == {k \in 1..Len(conversions) : Running(k)}

\* the state after a call or a task, once the ready callbacks have run
InstallRecord(M) ==
    LET M1 == runMicrotasks(M) IN
    /\ record' = M1.rec
    /\ conversionJobQueue' = M1.queue
    /\ conversions' = M1.convs
    /\ timers' = M1.timers
    /\ history' = M1.hist
    /\ needsDraw' = M1.needsDraw
    /\ UNCHANGED mapVars

\* the request a call makes: what it asks and whether a conversion is in flight
Request(kind, data, type) ==
    [kind |-> kind, data |-> data, type |-> type, inFlight |-> InFlight # {}]

\* M with the request recorded
Asked(M, request) == [M EXCEPT !.hist.requests = Append(@, request)]

\* cacheTile has handed the record out: it adds the first tile in the call
\* that creates the record
HandedOut == record # NewCacheRecord

\* cacheTile adds a tile to the record (CacheRecord.addTile): t1, then t2
AddTile ==
    \E tile \in TwoTiles :
        /\ ~record.destroyed
        /\ ~includes(record.tiles, tile)
        /\ tile = "t1" \/ includes(record.tiles, "t1")
        /\ InstallRecord([Machine EXCEPT
               !.rec = addTile(record, tile, TileData[1], TileData[2])])

\* record.transformTo(type)
TransformTo ==
    \E type \in TransformTargets :
        /\ HandedOut
        /\ Len(history.requests) < MaxRequests
        /\ InstallRecord(transformTo(Asked(Machine, Request("transformTo", Null, type)),
                                     type, Len(history.requests) + 1))

\* record.setDataAs(data, type)
SetDataAs ==
    \E a \in SetDataArgs :
        /\ HandedOut
        /\ Len(history.requests) < MaxRequests
        /\ InstallRecord(setDataAs(Asked(Machine, Request("setDataAs", a[1], a[2])),
                                   a[1], a[2], Len(history.requests) + 1))

\* the transform of a conversion's current edge resolves to the converted
\* payload
EdgeTransformed ==
    \E k \in InFlight :
        InstallRecord(edgeDone(Machine, k,
                               transform(conversions[k].path[conversions[k].i],
                                         conversions[k].x)))

\* the transform of a conversion's current edge resolves to a falsy value
EdgeFailed ==
    \E k \in InFlight : InstallRecord(edgeDone(Machine, k, Falsy))

\* a setTimeout callback of _checkAwaitsConvert runs
TimerFired ==
    /\ timers > 0
    /\ InstallRecord(timerFired(Machine))

\* the types of the getDataAs calls: the default and B
GetTypes == {Undefined, "B"}

\* record.getDataAs(type, copy)
GetDataAs ==
    \E type \in GetTypes, copy \in {"copy", "nocopy"} :
        /\ HandedOut
        /\ Len(history.requests) < MaxRequests
        /\ InstallRecord(getDataAs(Asked(Machine, Request("getDataAs", copy, type)),
                                   type, copy, Len(history.requests) + 1))

\* record.destroy(), on a record not destroyed yet
Destroy ==
    /\ HandedOut
    /\ ~record.destroyed
    /\ InstallRecord(destroyAsync(Machine))

NextRecord ==
    \/ AddTile
    \/ TransformTo
    \/ SetDataAs
    \/ EdgeTransformed
    \/ EdgeFailed
    \/ TimerFired
    \/ Destroy

SpecRecord == Init /\ [][NextRecord]_vars

\* the record is read while it is converted and destroyed
NextGet ==
    \/ AddTile
    \/ TransformTo
    \/ GetDataAs
    \/ EdgeTransformed
    \/ EdgeFailed
    \/ TimerFired
    \/ Destroy

SpecGet == Init /\ [][NextGet]_vars

\* the record is read while it is converted and written
NextShare ==
    \/ AddTile
    \/ TransformTo
    \/ SetDataAs
    \/ GetDataAs
    \/ EdgeTransformed
    \/ TimerFired

SpecShare == Init /\ [][NextShare]_vars

\* the cacheTile call that creates the record adds its first tile
AddFirstTile == ~HandedOut /\ AddTile

\* the record of a single tile is converted, written and destroyed, every
\* edge.transform resolving to a payload
NextOwn ==
    \/ AddFirstTile
    \/ TransformTo
    \/ SetDataAs
    \/ EdgeTransformed
    \/ TimerFired
    \/ Destroy

SpecOwn == Init /\ [][NextOwn]_vars

\* the record is not destroyed and no transform fails
NextDrain ==
    \/ AddTile
    \/ TransformTo
    \/ SetDataAs
    \/ EdgeTransformed
    \/ TimerFired

\* every setTimeout callback runs
SpecDrain == Init /\ [][NextDrain]_vars /\ WF_vars(TimerFired)

----------------------------------------------------------------------------
(* Properties.                                                             *)

Range(seq) == {seq[i] : i \in 1..Len(seq)}

\* C1: when the last call is a cacheTile for key K and the record it returned
\* is not destroyed, getCacheRecord(K) answers from the live map with a record
\* that is not destroyed and has at least one tile.
C1_LastCachedKeyIsLive ==
    (last.op = "cacheTile" /\ ~last.record.destroyed) =>
        /\ last.key \in DOMAIN cachesLoaded
        /\ ~cachesLoaded[last.key].destroyed
        /\ getTileCount(cachesLoaded[last.key]) >= 1

\* C2: a cacheTile for a key whose record is in the zombie map (and that evicts
\* nothing) takes the record out of the zombie map and installs it in the live
\* map, the zombie count goes down by one and the live count up by one, and
\* the tile is the record's only tile.
C2_ZombieKeyIsRevived ==
    [][(last'.op = "cacheTile" /\ last'.where = "zombie"
        /\ last'.zombieDestroyed = NoKey /\ last'.victim = NoTile) =>
           /\ last'.key \notin DOMAIN zombiesLoaded'
           /\ last'.key \in DOMAIN cachesLoaded'
           /\ zombiesLoadedCount' = zombiesLoadedCount - 1
           /\ cachesLoadedCount' = cachesLoadedCount + 1
           /\ cachesLoaded'[last'.key].tiles = <<last'.tile>>]_vars

\* C3: every record of the live map has at least one tile, and every record of
\* the zombie map has no tile and is not destroyed.
C3_LiveHaveTilesZombiesNone ==
    /\ \A k \in DOMAIN cachesLoaded : getTileCount(cachesLoaded[k]) >= 1
    /\ \A k \in DOMAIN zombiesLoaded :
           getTileCount(zombiesLoaded[k]) = 0 /\ ~zombiesLoaded[k].destroyed

\* C4: no cache key is in the live map and in the zombie map at once.
C4_LiveZombieDisjoint ==
    DOMAIN cachesLoaded \cap DOMAIN zombiesLoaded = {}

\* unloadTile has just made a zombie while another record is live
C4_Witness ==
    /\ last.op = "unloadTile" /\ ~last.destroyIt
    /\ DOMAIN cachesLoaded # {} /\ DOMAIN zombiesLoaded # {}

\* the cache overflows once the call has attached its tile, with a zombie there
OverflowsWithZombie ==
    /\ cachesLoadedCount + zombiesLoadedCount
           + (IF last'.where = "none" THEN 1 ELSE 0) > maxCacheItemCount
    /\ zombiesLoadedCount > 0
    /\ DOMAIN zombiesLoaded # {}

\* C5: a cacheTile call that overflows while a zombie exists destroys and
\* removes exactly one zombie record and unloads no tile: it raises no
\* tile-unloaded event, no live record loses a tile and _tilesLoaded loses no
\* element.
C5_ZombieEvictedFirst ==
    [][(last'.op = "cacheTile" /\ OverflowsWithZombie) =>
           /\ last'.zombieDestroyed \in DOMAIN zombiesLoaded
           /\ DOMAIN zombiesLoaded' = DOMAIN zombiesLoaded \ {last'.zombieDestroyed}
           /\ zombiesLoadedCount' = zombiesLoadedCount - 1
           /\ Len(last'.released) = 1
           /\ last'.events = <<>>
           /\ last'.victim = NoTile
           /\ \A k \in DOMAIN cachesLoaded :
                  /\ k \in DOMAIN cachesLoaded'
                  /\ Range(cachesLoaded[k].tiles) \subseteq Range(cachesLoaded'[k].tiles)
           /\ Len(tilesLoaded') >= Len(tilesLoaded)
           /\ \A i \in 1..Len(tilesLoaded) : tilesLoaded'[i] = tilesLoaded[i]]_vars

\* a cacheTile of a new key has destroyed a zombie while keeping a live record
C5_Witness ==
    /\ last.op = "cacheTile" /\ last.where = "none"
    /\ last.zombieDestroyed # NoKey
    /\ cachesLoadedCount = 1

\* the tiles of _tilesLoaded the scan may pick
Admissible(tl, cutoff, beingDrawn) ==
    {t \in Range(tl) : level(t) > cutoff /\ ~beingDrawn[t]}

\* C6: when a cacheTile call overflows with no zombie, the tile it unloads is
\* one of the tiles of _tilesLoaded above the cutoff and not being drawn, with
\* the least lastTouchTime among them and the highest level among those of
\* that lastTouchTime; when there is such a tile, one is unloaded.
C6_WorstTileIsOldestThenDeepest ==
    [][(last'.op = "cacheTile" /\ last'.scanned) =>
           LET cand == Admissible(tilesLoaded, last'.cutoff, last'.beingDrawn)
               time == last'.lastTouchTime
               v == last'.victim
           IN /\ (cand # {}) <=> (v # NoTile)
              /\ v # NoTile =>
                     /\ v \in cand
                     /\ \A t \in cand :
                            \/ time[v] < time[t]
                            \/ time[v] = time[t] /\ level(v) >= level(t)
                     /\ last'.events = <<[tile |-> v, tiledImage |-> tiledImage(v),
                                          destroyed |-> TRUE]>>]_vars

\* the tiles touched at 10, 10 and 20 with levels 2, 5 and 2 were scanned and
\* the one touched at 10 with level 5 was unloaded
C6_Witness ==
    /\ last.op = "cacheTile" /\ last.scanned /\ last.cutoff = 0
    /\ last.beingDrawn = [t \in Tiles |-> FALSE]
    /\ last.lastTouchTime = [t \in Tiles |-> IF t = "t3" THEN 20 ELSE 10]
    /\ last.victim = "t2"
    /\ {"t1", "t3"} \subseteq Range(tilesLoaded)

\* C7: a cacheTile call never unloads a tile at or below the cutoff or being
\* drawn; when every tile of _tilesLoaded is so protected and there is no
\* zombie, the call unloads nothing and the record count stays above the
\* capacity.
C7_ProtectedTilesStay ==
    [][(last'.op = "cacheTile") =>
           /\ \A i \in 1..Len(last'.events) :
                  /\ level(last'.events[i].tile) > last'.cutoff
                  /\ ~last'.beingDrawn[last'.events[i].tile]
           /\ (last'.scanned
                /\ Admissible(tilesLoaded, last'.cutoff, last'.beingDrawn) = {}) =>
                  /\ last'.events = <<>>
                  /\ last'.released = <<>>
                  /\ cachesLoadedCount' + zombiesLoadedCount' > maxCacheItemCount
                  /\ cachesLoadedCount' =
                         cachesLoadedCount + (IF last'.where = "none" THEN 1 ELSE 0)]_vars

\* a scan found every tile protected, one of them by beingDrawn, and the
\* cache is left above its capacity
C7_Witness ==
    /\ last.op = "cacheTile" /\ last.scanned /\ last.victim = NoTile
    /\ \E t \in Range(tilesLoaded) : last.beingDrawn[t] /\ level(t) > last.cutoff
    /\ cachesLoadedCount + zombiesLoadedCount > maxCacheItemCount


\* there are more records than maxImageCacheCount
OverCapacity == cachesLoadedCount + zombiesLoadedCount > maxCacheItemCount

\* the call that led here, if it scanned for a victim, found one and unloaded it
ScanFoundVictim ==
    (last.op = "cacheTile" /\ last.scanned) =>
        /\ last.victim # NoTile
        /\ last.events # <<>>

\* C8: in a run where cacheTile calls keep coming and find a victim whenever
\* they look for one, a record count above maxImageCacheCount leads to a
\* record count of at most maxImageCacheCount.
C8_CountComesBackDown ==
    ([]<>(last.op = "cacheTile") /\ []ScanFoundVictim)
        => (OverCapacity ~> ~OverCapacity)

\* the keys that have a record in either map
RecordKeys(live, zombies) == DOMAIN live \cup DOMAIN zombies

C10_LastTileMakesZombieOrDestroys ==
    [][(/\ last'.op = "unloadCacheForTile"
        /\ last'.key \in DOMAIN cachesLoaded
        /\ includes(cachesLoaded[last'.key].tiles, last'.tile)) =>
           LET key == last'.key
               old == cachesLoaded[key]
           IN IF old.tiles = <<last'.tile>>
              THEN IF last'.destroyIt
                   THEN /\ key \notin RecordKeys(cachesLoaded', zombiesLoaded')
                        /\ last'.released = << <<old.data, old.type>> >>
                        /\ cachesLoadedCount' = cachesLoadedCount - 1
                        /\ zombiesLoadedCount' = zombiesLoadedCount
                   ELSE /\ key \notin DOMAIN cachesLoaded'
                        /\ key \in DOMAIN zombiesLoaded'
                        /\ zombiesLoaded'[key] = [old EXCEPT !.tiles = <<>>]
                        /\ ~zombiesLoaded'[key].destroyed
                        /\ last'.released = <<>>
                        /\ cachesLoadedCount' = cachesLoadedCount - 1
                        /\ zombiesLoadedCount' = zombiesLoadedCount + 1
              ELSE /\ key \in DOMAIN cachesLoaded'
                   /\ cachesLoaded'[key] = [old EXCEPT !.tiles = without(@, last'.tile)]
                   /\ zombiesLoaded' = zombiesLoaded
                   /\ last'.released = <<>>
                   /\ cachesLoadedCount' = cachesLoadedCount
                   /\ zombiesLoadedCount' = zombiesLoadedCount]_vars

\* unloadCacheForTile with destroy false has just turned a loaded record into
\* a zombie
C10_Witness ==
    /\ last.op = "unloadCacheForTile" /\ ~last.destroyIt /\ last.ret
    /\ last.key \in DOMAIN zombiesLoaded
    /\ zombiesLoaded[last.key].loaded
    /\ last.key \notin DOMAIN cachesLoaded

\* the tiles of tl that the tiled image does not own, in their order
TilesOfOthers(tl, image) == SelectSeq(tl, LAMBDA t : tiledImage(t) # image)

C12_OneConversionInFlight ==
    Cardinality(InFlight) <= 1

\* the place of request r in seq, 0 when it is not there
Position(seq, r) ==
    IF includes(seq, r) THEN indexOf(seq, r) ELSE 0

\* the requests issued while a conversion was in flight
IssuedInFlight ==
    {r \in 1..Len(history.requests) : history.requests[r].inFlight}

\* no request of rs is in seq without every earlier request of rs before it
InIssueOrder(seq, rs) ==
    \A i, j \in rs :
        (i < j /\ includes(seq, j)) =>
            /\ includes(seq, i)
            /\ Position(seq, i) < Position(seq, j)

\* C13: the transformTo and setDataAs requests issued while a conversion is
\* in flight take effect, and have their eventuals resolved, in the order
\* they were issued.
C13_QueuedRequestsInIssueOrder ==
    /\ InIssueOrder(history.applied, IssuedInFlight)
    /\ InIssueOrder(history.resolved, IssuedInFlight)

\* request r is in the queue
Queued(r) ==
    /\ conversionJobQueue # NoQueue
    /\ \E i \in 1..Len(conversionJobQueue) : conversionJobQueue[i].req = r

\* C14: when every transform completes (again and again no conversion is in
\* flight) and the record is not destroyed, every queued request is
\* eventually taken from the queue and executed and its eventual resolved,
\* and a queue that holds jobs is eventually empty again.
C14_QueueDrains ==
    []<>(InFlight = {}) =>
        /\ \A r \in 1..MaxRequests :
               Queued(r) ~> (includes(history.applied, r)
                             /\ includes(history.resolved, r))
        /\ (conversionJobQueue # NoQueue) ~> (conversionJobQueue = NoQueue)

\* transformTo(B) was called on the loaded record of format A and
\* setDataAs(D2@C, C) right after it, while the conversion ran, no other
\* request, destroy, failure or second tile has come, and both eventuals
\* have resolved
BothResolved ==
    /\ Len(history.requests) = 2
    /\ history.requests[1] = [kind |-> "transformTo", data |-> Null,
                              type |-> "B", inFlight |-> FALSE]
    /\ history.requests[2] = [kind |-> "setDataAs", data |-> "D2@C",
                              type |-> "C", inFlight |-> TRUE]
    /\ includes(history.resolved, 1)
    /\ includes(history.resolved, 2)
    /\ ~record.destroyed
    /\ ~history.failed
    /\ record.tiles = <<"t1">>

\* C15: transformTo(B) on a loaded record of format A followed at once by
\* setDataAs(D2@C, C): once both eventuals have resolved the record is loaded
\* with format C and payload D2@C, and the payload of format B the conversion
\* produced has been released through the registry.
C15_OverwriteAfterTransformWins ==
    BothResolved =>
        /\ record.loaded
        /\ record.type = "C"
        /\ record.data = "D2@C"
        /\ includes(history.released, <<"D1@B", "B">>)

\* both eventuals have resolved, the original payload and the intermediate
\* one have been released, and the record holds the payload passed
C15_Witness ==
    /\ BothResolved
    /\ history.released = << <<"D1@A", "A">>, <<"D1@B", "B">> >>
    /\ record.data = "D2@C"

\* C16: a destroyed record is never populated again: it is not loaded and
\* holds no payload, whatever conversion or chained overwrite completes after
\* the destroy.
C16_DestroyedStaysEmpty ==
    record.destroyed => (~record.loaded /\ ~IsDatum(record.data))

\* how many times x occurs in seq
Count(seq, x) == Cardinality({i \in 1..Len(seq) : seq[i] = x})

\* C17: when the overwrite of a setDataAs request is applied to a destroyed
\* record, whether the record was destroyed before the call or between the
\* call and the deferred overwrite, the data passed is handed to the
\* registry's destroy and is not stored in the record.
C17_DestroyedReleasesPassedData ==
    [][\A r \in 1..MaxRequests :
          (/\ record.destroyed
           /\ ~includes(history.applied, r)
           /\ includes(history'.applied, r)
           /\ history'.requests[r].kind = "setDataAs") =>
              LET passed == <<history'.requests[r].data, history'.requests[r].type>>
              IN /\ Count(history'.released, passed) = Count(history.released, passed) + 1
                 /\ record'.data # passed[1]]_vars

\* C18: in every reachable state a loaded record has a payload and a format
\* tag, and the payload is in the format the tag names.
C18_LoadedHasPayloadInTaggedFormat ==
    record.loaded =>
        /\ IsDatum(record.data)
        /\ record.type \in Formats
        /\ FormatOf(record.data) = record.type

\* C19: when an edge.transform of a conversion resolves to a falsy value
\* (the first time one does), the record is rolled back: its payload is the
\* one it held before the conversion started, which has not been released,
\* its format is the one converted from, it is loaded, and the conversion's
\* eventual resolves to that payload, whichever edge failed.
C19_FalsyEdgeRollsBack ==
    [][(~history.failed /\ history'.failed) =>
           \A k \in InFlight :
               conversions'[k].settled =>
                   LET c == conversions[k] IN
                   /\ record'.data = c.originalData
                   /\ record'.type = c.from
                   /\ record'.loaded
                   /\ conversions'[k].value = c.originalData
                   /\ ~includes(history'.released, <<c.originalData, c.from>>)]_vars

\* the step is a transformTo call on a loaded record for a type that no
\* conversion path leads to from the record's
TransformToUnreachable ==
    /\ Len(history'.requests) = Len(history.requests) + 1
    /\ history'.requests[Len(history'.requests)].kind = "transformTo"
    /\ record.loaded
    /\ history'.requests[Len(history'.requests)].type # record.type
    /\ getConversionPath(record.type,
                         history'.requests[Len(history'.requests)].type) = <<>>

\* C20: transformTo(T) on a loaded record with no conversion path from its
\* format to T leaves the record as it was (payload, format, loaded), calls
\* neither a transform nor the registry's destroy, and leaves no job in the
\* queue.
C20_UnreachableTypeChangesNothing ==
    [][TransformToUnreachable =>
           /\ record' = record
           /\ history'.transforms = history.transforms
           /\ history'.released = history.released
           /\ conversionJobQueue' = conversionJobQueue
           /\ timers' = timers]_vars

\* transformTo(U) was the only request, made of the loaded record, and its
\* eventual has resolved: the record holds its payload, nothing was released
\* or transformed and there is no queue
C20_Witness ==
    /\ history.requests = <<[kind |-> "transformTo", data |-> Null,
                             type |-> Unreachable, inFlight |-> FALSE]>>
    /\ history.resolved = <<1>>
    /\ record.loaded /\ record.data = "D1@A" /\ record.type = "A"
    /\ history.released = <<>> /\ history.transforms = 0
    /\ conversionJobQueue = NoQueue

\* the value request r resolved to
ValueOf(r) == history.values[Position(history.resolved, r)]

\* transformTo(t) was called on the loaded record of format A and then
\* transformTo(t) again, t a format a path leads to, and nothing else has
\* been asked of the record, which is not destroyed, has one tile and has
\* seen no transform fail
TransformedTwice(t) ==
    /\ Len(history.requests) = 2
    /\ history.requests[1] = [kind |-> "transformTo", data |-> Null,
                              type |-> t, inFlight |-> FALSE]
    /\ history.requests[2].kind = "transformTo"
    /\ history.requests[2].type = t
    /\ ~record.destroyed
    /\ ~history.failed
    /\ record.tiles = <<"t1">>

\* C21: transformTo(t) followed by transformTo(t), made after the first
\* conversion finished or while it is in flight: the second call causes no
\* further transform or release (there are as many as the path has edges),
\* and once both eventuals have resolved they resolved to the same payload
\* and the record is loaded in format t with that payload.
C21_TransformToIsIdempotent ==
    \A t \in Formats \ {"A"} :
        TransformedTwice(t) =>
            /\ history.transforms <= Len(getConversionPath("A", t))
            /\ Len(history.released) <= Len(getConversionPath("A", t))
            /\ (includes(history.resolved, 1) /\ includes(history.resolved, 2)) =>
                   /\ ValueOf(1) = Datum("D1", t)
                   /\ ValueOf(2) = ValueOf(1)
                   /\ record.loaded
                   /\ record.type = t
                   /\ record.data = Datum("D1", t)
                   /\ history.transforms = Len(getConversionPath("A", t))

\* transformTo(C) was called again while the first transformTo(C) was
\* converting over two edges, and both have resolved to D1@C
C21_Witness ==
    /\ TransformedTwice("C")
    /\ history.requests[2].inFlight
    /\ history.resolved = <<1, 2>>
    /\ history.values = <<"D1@C", "D1@C">>
    /\ history.transforms = 2

\* the step is a getDataAs call
GetDataAsCalled ==
    /\ Len(history'.requests) = Len(history.requests) + 1
    /\ history'.requests[Len(history'.requests)].kind = "getDataAs"

\* C22: getDataAs on a destroyed record does not throw and calls neither
\* $.convertor.convert nor $.convertor.copy, and the eventual of a getDataAs
\* that resolves on a destroyed record, destroyed before the call or while it
\* awaited, resolves to undefined.
C22_GetDataAsOfDestroyedIsUndefined ==
    [][record.destroyed =>
           /\ GetDataAsCalled =>
                  (~history'.threw /\ history'.calls = history.calls)
           /\ \A r \in 1..MaxRequests :
                  (/\ ~includes(history.resolved, r)
                   /\ includes(history'.resolved, r)
                   /\ history'.requests[r].kind = "getDataAs") =>
                      /\ history'.values[Position(history'.resolved, r)] = Undefined
                      /\ history'.calls = history.calls]_vars

\* the setDataAs requests whose overwrite is applied in the step
OverwritesApplied ==
    {r \in 1..MaxRequests :
        /\ ~includes(history.applied, r)
        /\ includes(history'.applied, r)
        /\ history'.requests[r].kind = "setDataAs"}

\* C23: a step that applies a setDataAs overwrite to a record that is not
\* destroyed leaves needsDraw true for the tiled image of every tile of the
\* record; a step that applies none (a transformTo call, the completion or
\* the failure of a conversion, a drain of a queued transformTo) leaves every
\* needsDraw flag as it was.
C23_OverwriteNeedsDrawConversionDoesNot ==
    [][/\ (OverwritesApplied # {} /\ ~record.destroyed) =>
              \A j \in 1..Len(record.tiles) :
                  needsDraw'[tiledImage(record.tiles[j])]
       /\ OverwritesApplied = {} => needsDraw' = needsDraw]_vars

\* the record of two tiles was converted to B, with no flag set, and then
\* overwritten: both tiled images need a draw
C23_Witness ==
    /\ Len(history.requests) = 2
    /\ history.requests[1].kind = "transformTo"
    /\ history.requests[2].kind = "setDataAs"
    /\ ~history.requests[2].inFlight
    /\ history.applied = <<1, 2>>
    /\ history.transforms = 1
    /\ record.tiles = <<"t1", "t2">>
    /\ record.data = "D2@C"
    /\ needsDraw = [i \in TiledImages |-> TRUE]

\* how many times the payload x was handed to $.convertor.destroy
Releases(released, x) ==
    Cardinality({i \in 1..Len(released) : released[i][1] = x})

\* C24: when the only conversion of the record, which has a single tile,
\* completes after the record was destroyed, every payload the conversion
\* produced, the intermediate ones and the final one, has been handed to
\* $.convertor.destroy exactly once, also when a setDataAs was chained on the
\* conversion before the destroy.
C24_ProducedPayloadsReleasedOnce ==
    [][\A k \in InFlight :
          (/\ record.destroyed
           /\ record.tiles = <<"t1">>
           /\ Len(conversions) = 1
           /\ conversions'[k].settled
           /\ history'.failed = history.failed) =>
              \A j \in 1..Len(conversions[k].path) :
                  Releases(history'.released,
                           Datum(ContentOf(conversions[k].originalData),
                                 conversions[k].path[j].target)) = 1]_vars

\* the tile holds a binding to a key that has a record in the live map
BoundToLive(t) == \E i \in 1..Len(caches[t]) : caches[t][i] \in DOMAIN cachesLoaded

\* C25: every tile present in _tilesLoaded has at least one of its cache keys
\* bound to a record in the live map, also after an unloadTile called without
\* a deleteAtIndex and after a cacheTile whose key was found in the zombie map.
C25_LoadedTilesAreBoundToLive ==
    \A i \in 1..Len(tilesLoaded) : BoundToLive(tilesLoaded[i])

\* the record getCacheRecord answers with for the key lists the tile
ListedUnder(key, t) ==
    \/ key \in DOMAIN cachesLoaded /\ includes(cachesLoaded[key].tiles, t)
    \/ /\ key \notin DOMAIN cachesLoaded
       /\ key \in DOMAIN zombiesLoaded
       /\ includes(zombiesLoaded[key].tiles, t)

\* C26: after unloadTile(tile, destroy) has returned and the tile has dropped
\* all its bindings, no record that getCacheRecord can reach lists the tile
\* among its tiles, whether the live or the zombie map held the record the
\* tile was attached to.
C26_UnloadedTileIsListedNowhere ==
    (last.op = "unloadTile" /\ caches[last.tile] = <<>>) =>
        \A key \in Keys : ~ListedUnder(key, last.tile)

\* C27: a clearTilesFor(tiledImage) call destroys every zombie record there
\* is and sets the zombie count to 0 exactly when the tiled image has
\* _zombieCache false and the live and zombie counts together exceed the
\* capacity at the start of the call; otherwise, and whenever _zombieCache is
\* true, every zombie there was before the call is still a zombie after it.
C27_ClearPurgesZombiesWhenNotRetained ==
    [][\A image \in TiledImages :
          (last'.op = "clearTilesFor" /\ last'.image = image) =>
              IF ~zombieCache(image)
                 /\ cachesLoadedCount + zombiesLoadedCount > maxCacheItemCount
              THEN zombiesLoaded' = EmptyMap /\ zombiesLoadedCount' = 0
              ELSE \A key \in DOMAIN zombiesLoaded :
                       /\ key \in DOMAIN zombiesLoaded'
                       /\ ~zombiesLoaded'[key].destroyed]_vars

\* the tiles a call has unloaded: those it raised tile-unloaded for
Unloaded(events) == {events[i].tile : i \in 1..Len(events)}

\* the call destroyed zombies there were before it
Purged ==
    \E key \in DOMAIN zombiesLoaded : key \notin DOMAIN zombiesLoaded'

\* whether the cache overflows its capacity for a clearTilesFor call: counted
\* anew, without the zombies, when the call has purged them
OverflowAfterPurge ==
    IF Purged THEN cachesLoadedCount > maxCacheItemCount
    ELSE cachesLoadedCount + zombiesLoadedCount > maxCacheItemCount

\* the keys whose record, holding the payload x, is in neither map after the
\* step
GoneWith(x) ==
    {key \in DOMAIN cachesLoaded \ DOMAIN cachesLoaded' :
        key \notin DOMAIN zombiesLoaded' /\ cachesLoaded[key].data = x}
    \cup {key \in DOMAIN zombiesLoaded \ DOMAIN zombiesLoaded' :
              zombiesLoaded[key].data = x}

\* C28: when a clearTilesFor(tiledImage) call unloads loaded tiles of the
\* image, a live record the call leaves without tiles is destroyed (its
\* payload released once, the key in neither map) if and only if _zombieCache of
\* the image is false or the cache overflows its capacity as counted after
\* the purge of zombies; otherwise it is moved to the zombie map, not
\* destroyed and with its payload kept.
C28_ClearDestroysOrRetainsEmptied ==
    [][\A image \in TiledImages :
          (last'.op = "clearTilesFor" /\ last'.image = image) =>
              \A key \in DOMAIN cachesLoaded \ DOMAIN cachesLoaded' :
                  IF ~zombieCache(image) \/ OverflowAfterPurge
                  THEN /\ key \notin DOMAIN zombiesLoaded'
                       /\ Releases(last'.released, cachesLoaded[key].data)
                              = Cardinality(GoneWith(cachesLoaded[key].data))
                  ELSE /\ key \in DOMAIN zombiesLoaded'
                       /\ zombiesLoaded'[key] =
                              [cachesLoaded[key] EXCEPT !.tiles = <<>>]]_vars

\* a clearTilesFor call of the image that retains zombies has purged the
\* zombie B and, the one live record no longer overflowing, made the record A
\* it emptied a zombie with its payload
C28_Witness ==
    /\ last.op = "clearTilesFor"
    /\ last.image = "I1"
    /\ Unloaded(last.events) = {"t1"}
    /\ Len(last.released) = 1
    /\ DOMAIN zombiesLoaded = {"A"}
    /\ zombiesLoaded["A"].loaded
    /\ zombiesLoaded["A"].tiles = <<>>
    /\ cachesLoaded = EmptyMap

\* the live map holds a record for the key and the record lists the tile
InLiveRecord(key, t) ==
    key \in DOMAIN cachesLoaded /\ includes(cachesLoaded[key].tiles, t)

\* C29: unloadCacheForTile(tile, key, destroy) returns true exactly when the
\* live map had a record for the key that listed the tile, and that record
\* lists the tile no more; when it returns false, because the live map has no
\* record for the key or the record does not list the tile, both maps with
\* every record in them and both counts are what they were and nothing has
\* been handed to $.convertor.destroy.
C29_UnloadCacheForTileFalseChangesNothing ==
    [][last'.op = "unloadCacheForTile" =>
          /\ last'.ret = InLiveRecord(last'.key, last'.tile)
          /\ last'.ret =>
                 /\ last'.key \in DOMAIN cachesLoaded' =>
                        ~includes(cachesLoaded'[last'.key].tiles, last'.tile)
                 /\ last'.key \in DOMAIN zombiesLoaded' =>
                        ~includes(zombiesLoaded'[last'.key].tiles, last'.tile)
          /\ ~last'.ret =>
                 /\ cachesLoaded' = cachesLoaded
                 /\ zombiesLoaded' = zombiesLoaded
                 /\ cachesLoadedCount' = cachesLoadedCount
                 /\ zombiesLoadedCount' = zombiesLoadedCount
                 /\ last'.released = <<>>]_vars

\* an unloadCacheForTile call has returned false for a key the live map has
\* a record for: the record does not list the tile
C29_Witness ==
    /\ last.op = "unloadCacheForTile"
    /\ ~last.ret
    /\ last.where = "live"
    /\ last.key \in DOMAIN cachesLoaded
    /\ cachesLoaded[last.key].tiles # <<>>
    /\ includes(caches[last.tile], last.key)

\* conversion k completes in the step: its last edge.transform resolves to a
\* payload
Completes(k) ==
    /\ k \in InFlight
    /\ conversions'[k].settled
    /\ conversions'[k].value # conversions[k].originalData

\* the continuation cb, chained on a promise, has run in the step
RanInStep(cb) ==
    IF cb.kind = "overwrite"
    THEN includes(history'.applied, cb.req) /\ ~includes(history.applied, cb.req)
    ELSE includes(history'.resolved, cb.req) /\ ~includes(history.resolved, cb.req)

\* the queue loses its head job in the step
Dequeues ==
    /\ conversionJobQueue # NoQueue
    /\ \/ conversionJobQueue' = NoQueue
       \/ /\ Len(conversionJobQueue') >= Len(conversionJobQueue) - 1
          /\ \A i \in 2..Len(conversionJobQueue) :
                 conversionJobQueue'[i - 1] = conversionJobQueue[i]
          /\ conversionJobQueue'[1] # conversionJobQueue[1]

\* C30: in the step in which a conversion completes while jobs are queued, no
\* job leaves the queue and the head job does not start, a timer is set for
\* the drain, and every continuation that was chained on the conversion's
\* promise has run; a job leaves the queue only when a timer fires on a
\* record that is not destroyed (a destroy call drops the whole queue), and a
\* timer that fires when the record is destroyed or has no queue takes no job,
\* throws nothing and changes nothing of the record.
C30_DrainYieldsAndChecksAgain ==
    [][/\ \A k \in InFlight :
             (Completes(k) /\ conversionJobQueue # NoQueue /\ ~record.destroyed) =>
                 /\ conversionJobQueue' = conversionJobQueue
                 /\ ~includes(history'.applied, Head(conversionJobQueue).req)
                 /\ timers' > timers
                 /\ \A j \in 1..Len(conversions[k].callbacks) :
                        conversions[k].callbacks[j].req # 0 =>
                            RanInStep(conversions[k].callbacks[j])
       /\ (Dequeues /\ ~(record'.destroyed /\ ~record.destroyed)) =>
             /\ timers > 0
             /\ ~record.destroyed
             /\ \A k \in InFlight : ~conversions'[k].settled
       /\ (timers' < timers /\ (record.destroyed \/ conversionJobQueue = NoQueue)) =>
             /\ conversionJobQueue' = conversionJobQueue
             /\ record' = record
             /\ ~history'.threw
             /\ [history' EXCEPT !.threw = FALSE] = [history EXCEPT !.threw = FALSE]
             /\ conversions' = conversions]_vars

\* a conversion with a setDataAs chained on its promise has completed with a
\* transformTo job queued: the setDataAs has taken effect, the job is still
\* the head of the queue and has not started, and the timer of the drain is
\* pending
C30_Witness ==
    /\ Len(history.requests) = 3
    /\ history.requests[1].kind = "transformTo"
    /\ history.requests[2].kind = "setDataAs"
    /\ history.requests[3].kind = "transformTo"
    /\ InFlight = {}
    /\ Len(conversions) = 1
    /\ history.applied = <<1, 2>>
    /\ Queued(3)
    /\ timers = 1
    /\ ~record.destroyed

\* C31: _cachesLoadedCount is the number of keys of the live map and
\* _zombiesLoadedCount the number of keys of the zombie map, so that
\* numCachesLoaded() is the number of records getCacheRecord can reach, and
\* neither counter is negative.
C31_CountersCountTheMaps ==
    /\ cachesLoadedCount = Cardinality(DOMAIN cachesLoaded)
    /\ zombiesLoadedCount = Cardinality(DOMAIN zombiesLoaded)
    /\ numCachesLoaded(State({}))
          = Cardinality({key \in Keys : getCacheRecord(State({}), key) # "none"})
    /\ cachesLoadedCount >= 0
    /\ zombiesLoadedCount >= 0

\* a cacheTile call has created a record and destroyed the zombie there was
C31_Witness ==
    /\ last.op = "cacheTile"
    /\ last.where = "none"
    /\ last.zombieDestroyed # NoKey
    /\ zombiesLoadedCount = 0
    /\ cachesLoadedCount = 1

\* C32: the record a cacheTile call returns is, when the call returns, not
\* destroyed, lists the tile cached among its tiles, and is the record
\* getCacheRecord gives for the key of the call.
C32_ReturnedRecordIsUsable ==
    last.op = "cacheTile" =>
        /\ ~last.record.destroyed
        /\ includes(last.record.tiles, last.tile)
        /\ getCacheRecord(State({}), last.key) # "none"
        /\ getCacheRecord(State({}), last.key) = "live" =>
               cachesLoaded[last.key] = last.record
        /\ getCacheRecord(State({}), last.key) = "zombie" =>
               zombiesLoaded[last.key] = last.record

\* C33: an addTile of a new tile to a record that is not destroyed and whose
\* conversion is in flight (loaded false, the promise that of the conversion)
\* only adds the tile: loaded, the payload, the format and the promise are
\* what they were.
C33_AddTileLeavesConversionAlone ==
    [][\A tile \in TwoTiles :
          (/\ ~record.destroyed
           /\ ~record.loaded
           /\ InFlight # {}
           /\ record.promise # NullPromise
           /\ record.promise[1] # "resolved"
           /\ ~includes(record.tiles, tile)
           /\ record'.tiles = Append(record.tiles, tile)) =>
              record' = [record EXCEPT !.tiles = Append(@, tile)]]_vars

\* the record has one tile, at most one conversion was started and at most
\* one setDataAs called: every payload there is has a name of its own
OnePayloadPerName ==
    /\ record.tiles = <<"t1">>
    /\ Len(conversions) <= 1
    /\ Cardinality({r \in 1..Len(history.requests) :
                       history.requests[r].kind = "setDataAs"}) <= 1
    /\ ~record.destroyed
    /\ ~history.failed

\* C34: every payload the record passes to $.convertor.convert or
\* $.convertor.copy is in the format it is passed with and has not been
\* handed to $.convertor.destroy before, every payload handed to
\* $.convertor.destroy is in the format it is handed with, and no payload a
\* getDataAs resolves to has been handed to $.convertor.destroy; so also
\* when the getDataAs awaits a conversion and a setDataAs called before it
\* overwrites the record first.
C34_PayloadsPassedLiveAndTagged ==
    [][(OnePayloadPerName /\ OnePayloadPerName') =>
          /\ \A i \in (Len(history.passed) + 1)..Len(history'.passed) :
                 /\ ~history'.passed[i].released
                 /\ FormatOf(history'.passed[i].data) = history'.passed[i].type
          /\ \A i \in (Len(history.released) + 1)..Len(history'.released) :
                 FormatOf(history'.released[i][1]) = history'.released[i][2]
          /\ \A j \in (Len(history.values) + 1)..Len(history'.values) :
                 (/\ history'.requests[history'.resolved[j]].kind = "getDataAs"
                  /\ IsDatum(history'.values[j])) =>
                     Releases(history'.released, history'.values[j]) = 0]_vars

\* the payloads the record was given: the data of the cacheTile call that
\* created it and the data of the setDataAs calls
Owned ==
    (IF HandedOut THEN {TileData[1]} ELSE {})
    \cup {history.requests[r].data :
             r \in {q \in 1..Len(history.requests) :
                       history.requests[q].kind = "setDataAs"}}

\* nothing is pending: no conversion in flight, no job queued, no timer set,
\* and the eventual of every request has resolved
Quiescent ==
    /\ InFlight = {}
    /\ conversionJobQueue = NoQueue
    /\ timers = 0
    /\ \A r \in 1..Len(history.requests) : includes(history.resolved, r)

\* at most one conversion was started and at most one setDataAs called: every
\* payload there is has a name of its own
DistinctPayloads ==
    /\ Len(conversions) <= 1
    /\ Cardinality({r \in 1..Len(history.requests) :
                       history.requests[r].kind = "setDataAs"}) <= 1

\* C35: over the calls made of a record (the cacheTile that creates it,
\* setDataAs, transformTo, destroy), no payload is handed to $.convertor.destroy more
\* than once, and once nothing is pending every payload the record was given
\* is the payload of the record, not destroyed, or has been handed to
\* $.convertor.destroy.
C35_ReleasedOnceAndNoLeak ==
    DistinctPayloads =>
        /\ \A i \in 1..Len(history.released) :
               Releases(history.released, history.released[i][1]) = 1
        /\ Quiescent =>
               \A x \in Owned :
                   \/ ~record.destroyed /\ record.data = x
                   \/ Releases(history.released, x) = 1

====
